---- MODULE Spec2Model ----
(***************************************************************************)
(* CourseNest backend (src/server/server.js): registration, login,         *)
(* payment recording and entitlement-gated video access over a relational  *)
(* store.  Every request handler is an async function; each `await` on the *)
(* store or on bcrypt is a point where other requests may run, so a        *)
(* handler is one action per awaited step.                                 *)
(*                                                                         *)
(* The store is taken to answer every statement (no StoreError); the       *)
(* handlers' catch blocks (500 "Server error") are therefore not entered.  *)
(***************************************************************************)
EXTENDS Integers, Sequences, FiniteSets, TLC

\* ---------------------------------------------------------------- bounds
MaxUsers == 2       \* rows the users table may reach
MaxTokens == 2      \* distinct tokens Login may issue
MaxPayReqs == 2     \* POST /payment requests that reach the handler
MaxTime == 3        \* clock ticks (one tick = half an hour)

\* ------------------------------------------------------- program constants
ExpiresIn == 2      \* expiresIn: "1h", in ticks of half an hour
SaltRounds == 10    \* bcrypt.hash(password, 10)

\* ---------------------------------------------------------------- inputs
Slots == {1, 2}                 \* requests that may be in flight together
Names == {"Ann"}
Emails == {"ann@x.com", "bob@x.com"}
Passwords == {"pw123", "hunter2"}
Salts == {"saltA"}
Methods == {"card"}
Missing == ""                   \* a field absent from the JSON body (falsy)
Secrets == {"k1", Missing}      \* process.env.JWT_SECRET: set, or absent

\* Request bodies: every complete one, and one with each field left out.
RegisterBodies ==
  [name : Names, email : Emails, password : Passwords]
    \cup {[name |-> Missing, email |-> "ann@x.com", password |-> "pw123"],
          [name |-> "Ann", email |-> Missing, password |-> "pw123"],
          [name |-> "Ann", email |-> "ann@x.com", password |-> Missing]}
LoginBodies ==
  [email : Emails, password : Passwords]
    \cup {[email |-> Missing, password |-> "pw123"],
          [email |-> "ann@x.com", password |-> Missing]}

\* Content Store: the courses and videos tables (read-only here).
Courses == {1, 2}
Videos == {[id |-> 11, course_id |-> 1], [id |-> 12, course_id |-> 1],
           [id |-> 21, course_id |-> 2]}

VARIABLES users, payments, tokens, secret, now, req, payLog

vars == <<users, payments, tokens, secret, now, req, payLog>>

\* ----------------------------------------------------------- empty values
NoHash == [cost |-> 0, salt |-> "", digest |-> ""]
NoRow == [id |-> 0, name |-> "", email |-> "", password |-> NoHash]
NoIdent == [id |-> 0, email |-> ""]
NoToken == [id |-> 0, email |-> "", iat |-> 0, exp |-> 0, sig |-> ""]
ForgedToken == [id |-> 1, email |-> "ann@x.com", iat |-> 0, exp |-> 99, sig |-> "bad"]

Idle ==
  [op |-> "idle", pc |-> "idle", name |-> "", email |-> "", password |-> "",
   auth |-> NoToken, courseId |-> 0, method |-> "", ident |-> NoIdent,
   row |-> NoRow, hashed |-> NoHash, status |-> 0, message |-> "",
   error |-> "", token |-> NoToken, body |-> {}]

Respond(r, status, message) ==
  [r EXCEPT !.pc = "done", !.status = status, !.message = message]

\* ----------------------------------------------------------------- bcrypt
\* bcrypt.hash: a digest of the password under a fresh salt and the cost.
Hash(password, salt) ==
  [cost |-> SaltRounds, salt |-> salt, digest |-> salt \o "$" \o password]

\* bcrypt.compare: re-hash the candidate under the stored salt.
Compare(password, hashed) ==
  hashed.salt \o "$" \o password = hashed.digest

\* ------------------------------------------------------------------ store
\* SELECT * FROM users WHERE email = $1  (indices of the matching rows)
RowsFor(email) == {i \in 1..Len(users) : users[i].email = email}

\* Faulty variant: the existence test compares with 1 instead of 0.
UserExistsOffByOne(email) == Cardinality(RowsFor(email)) > 1

\* existingUser.rows.length > 0
UserExists(email) == Cardinality(RowsFor(email)) > 0

\* SELECT ... FROM payments WHERE user_id = $1 AND course_id = $2
PaymentRows(userId, courseId) ==
  {i \in 1..Len(payments) :
     payments[i].user_id = userId /\ payments[i].course_id = courseId}

\* Faulty variant: the existence test compares with 1 instead of 0.
AlreadyPurchasedOffByOne(userId, courseId) ==
  Cardinality(PaymentRows(userId, courseId)) > 1

\* existing.rows.length > 0
AlreadyPurchased(userId, courseId) ==
  Cardinality(PaymentRows(userId, courseId)) > 0

\* Faulty variant: the gating query leaves out user_id = $1.
PurchasedByAnyone(userId, courseId) ==
  \E i \in 1..Len(payments) : payments[i].course_id = courseId

\* purchased.rows.length === 0 is the denial; this is its negation
Purchased(userId, courseId) ==
  Cardinality(PaymentRows(userId, courseId)) # 0

\* Faulty variant: the parameter array is [courseId, userId, paymentMethod].
NewPaymentSwapped(userId, courseId, method) ==
  [user_id |-> courseId, course_id |-> userId, payment_method |-> method]

\* VALUES ($1, $2, $3) with [userId, courseId, paymentMethod]
NewPayment(userId, courseId, method) ==
  [user_id |-> userId, course_id |-> courseId, payment_method |-> method]

\* SELECT * FROM videos WHERE course_id = $1
VideosOf(courseId) == {v.id : v \in {w \in Videos : w.course_id = courseId}}

\* SELECT c.* FROM courses c JOIN payments p ON p.course_id = c.id WHERE p.user_id = $1
MyCourses(userId) ==
  {c \in Courses : \E i \in 1..Len(payments) :
     payments[i].course_id = c /\ payments[i].user_id = userId}

\* -------------------------------------------------------------------- jwt
\* Faulty variant: the token is signed with twice the lifetime.
SignTokenTwoHours(user, key, t) ==
  [id |-> user.id, email |-> user.email, iat |-> t,
   exp |-> t + ExpiresIn + ExpiresIn, sig |-> key]

\* jwt.sign({ id, email }, JWT_SECRET, { expiresIn: "1h" })
SignToken(user, key, t) ==
  [id |-> user.id, email |-> user.email, iat |-> t, exp |-> t + ExpiresIn,
   sig |-> key]

\* Access Middleware: the error kind, "" when the token is accepted.
VerifyError(auth, key, t) ==
  IF auth = NoToken THEN "MissingTokenError"
  ELSE IF key = Missing \/ auth.sig # key THEN "InvalidTokenError"
  ELSE IF t >= auth.exp THEN "ExpiredTokenError"
  ELSE ""

\* Access Middleware on success: req.user = the decoded payload.
Decoded(auth) == [id |-> auth.id, email |-> auth.email]

\* The status the middleware answers a rejected request with.
RejectStatus(error) == IF error = "MissingTokenError" THEN 401 ELSE 403

\* ------------------------------------------------------------------- init
Init ==
  /\ users = <<>>
  /\ payments = <<>>
  /\ tokens = {}
  /\ secret \in Secrets
  /\ now = 0
  /\ req = [s \in Slots |-> Idle]
  /\ payLog = <<>>

InFlight(op) == {s \in Slots : req[s].op = op /\ req[s].pc # "done"}

\* A request is taken by the first free slot.
Free(s) == req[s].pc = "idle" /\ \A t \in Slots : t < s => req[t].pc # "idle"


\* --------------------------------------------------------------- handlers
\* The Access Middleware in front of a protected route.
Authenticate(r, key, t) ==
  IF VerifyError(r.auth, key, t) # ""
  THEN [Respond(r, RejectStatus(VerifyError(r.auth, key, t)), "")
          EXCEPT !.error = VerifyError(r.auth, key, t)]
  ELSE [r EXCEPT !.ident = Decoded(r.auth), !.pc = "select"]

\* if (!req.user?.id) return res.status(403) ...
RequireUserId(r) ==
  IF r.pc = "done" THEN r
  ELSE IF r.ident.id = 0 THEN Respond(r, 403, "Unauthorized")
  ELSE r

\* ---- POST /register
RegisterValidate(r) ==
  IF r.name = Missing \/ r.email = Missing \/ r.password = Missing
  THEN Respond(r, 400, "All fields are required")
  ELSE [r EXCEPT !.pc = "select"]

RegisterChecked(r) ==
  IF UserExists(r.email) THEN Respond(r, 400, "User already exists")
  ELSE [r EXCEPT !.pc = "hash"]

\* INSERT INTO users (name, email, password) ... RETURNING *  (id is generated)
NewUser(r) ==
  [id |-> Len(users) + 1, name |-> r.name, email |-> r.email,
   password |-> r.hashed]

BeginRegister(s) ==
  /\ Free(s)
  /\ Len(users) + Cardinality(InFlight("register")) < MaxUsers
  /\ \E b \in RegisterBodies :
       req' = [req EXCEPT ![s] = RegisterValidate(
                 [Idle EXCEPT !.op = "register", !.name = b.name,
                              !.email = b.email, !.password = b.password])]
  /\ UNCHANGED <<users, payments, tokens, secret, now, payLog>>

RegisterSelect(s) ==
  /\ req[s].op = "register" /\ req[s].pc = "select"
  /\ req' = [req EXCEPT ![s] = RegisterChecked(req[s])]
  /\ UNCHANGED <<users, payments, tokens, secret, now, payLog>>

RegisterHash(s) ==
  /\ req[s].op = "register" /\ req[s].pc = "hash"
  /\ \E salt \in Salts :
       req' = [req EXCEPT ![s].hashed = Hash(req[s].password, salt),
                          ![s].pc = "insert"]
  /\ UNCHANGED <<users, payments, tokens, secret, now, payLog>>

RegisterInsert(s) ==
  /\ req[s].op = "register" /\ req[s].pc = "insert"
  /\ users' = Append(users, NewUser(req[s]))
  /\ req' = [req EXCEPT ![s] =
               [Respond(req[s], 201, "User registered successfully")
                  EXCEPT !.row = NewUser(req[s])]]
  /\ UNCHANGED <<payments, tokens, secret, now, payLog>>

\* ---- POST /login
LoginValidate(r) ==
  IF r.email = Missing \/ r.password = Missing
  THEN Respond(r, 400, "Both fields are required")
  ELSE [r EXCEPT !.pc = "select"]

\* result.rows[0]: the statement has no ORDER BY, so with several rows for
\* one email the store may return any of them first.
FirstRow(email) ==
  IF RowsFor(email) = {} THEN {NoRow} ELSE {users[i] : i \in RowsFor(email)}

\* Faulty variant: an unknown email gets an answer of its own.
LoginFoundTellsUnknown(r, user) ==
  IF user = NoRow THEN Respond(r, 404, "User not found")
  ELSE [r EXCEPT !.row = user, !.pc = "compare"]

\* if (!user) return 401
LoginFound(r, user) ==
  IF user = NoRow THEN Respond(r, 401, "Invalid email or password")
  ELSE [r EXCEPT !.row = user, !.pc = "compare"]

\* Faulty variant: the secret is not checked before signing.
LoginFinishUnchecked(r, key, t) ==
  IF ~Compare(r.password, r.row.password)
  THEN Respond(r, 401, "Invalid email or password")
  ELSE [Respond(r, 200, "Login successful")
          EXCEPT !.token = SignToken(r.row, key, t)]

\* after bcrypt.compare: mismatch, then the secret, then jwt.sign
LoginFinish(r, key, t) ==
  IF ~Compare(r.password, r.row.password)
  THEN Respond(r, 401, "Invalid email or password")
  ELSE IF key = Missing THEN Respond(r, 500, "Server misconfiguration")
  ELSE [Respond(r, 200, "Login successful")
          EXCEPT !.token = SignToken(r.row, key, t)]

BeginLogin(s) ==
  /\ Free(s)
  /\ Cardinality(tokens) + Cardinality(InFlight("login")) < MaxTokens
  /\ \E b \in LoginBodies :
       req' = [req EXCEPT ![s] = LoginValidate(
                 [Idle EXCEPT !.op = "login", !.email = b.email,
                              !.password = b.password])]
  /\ UNCHANGED <<users, payments, tokens, secret, now, payLog>>

LoginSelect(s) ==
  /\ req[s].op = "login" /\ req[s].pc = "select"
  /\ \E user \in FirstRow(req[s].email) :
       req' = [req EXCEPT ![s] = LoginFound(req[s], user)]
  /\ UNCHANGED <<users, payments, tokens, secret, now, payLog>>

LoginCompare(s) ==
  /\ req[s].op = "login" /\ req[s].pc = "compare"
  /\ req' = [req EXCEPT ![s] = LoginFinish(req[s], secret, now)]
  /\ tokens' = tokens \cup ({req'[s].token} \ {NoToken})
  /\ UNCHANGED <<users, payments, secret, now, payLog>>

\* ---- POST /payment
Logged(r, status) ==
  Append(payLog, [user |-> r.ident.id, course |-> r.courseId, status |-> status])

PaymentChecked(r) ==
  IF AlreadyPurchased(r.ident.id, r.courseId)
  THEN Respond(r, 409, "You have already purchased this course.")
  ELSE [r EXCEPT !.pc = "insert"]

BeginPayment(s) ==
  /\ Free(s)
  /\ Len(payLog) + Cardinality(InFlight("payment")) < MaxPayReqs
  /\ \E auth \in tokens \cup {NoToken, ForgedToken}, courseId \in Courses,
        method \in Methods :
       req' = [req EXCEPT ![s] = RequireUserId(Authenticate(
                 [Idle EXCEPT !.op = "payment", !.auth = auth,
                              !.courseId = courseId, !.method = method],
                 secret, now))]
  /\ UNCHANGED <<users, payments, tokens, secret, now, payLog>>

PaymentSelect(s) ==
  /\ req[s].op = "payment" /\ req[s].pc = "select"
  /\ req' = [req EXCEPT ![s] = PaymentChecked(req[s])]
  /\ payLog' = IF req'[s].pc = "done" THEN Logged(req[s], 409) ELSE payLog
  /\ UNCHANGED <<users, payments, tokens, secret, now>>

PaymentInsert(s) ==
  /\ req[s].op = "payment" /\ req[s].pc = "insert"
  /\ payments' = Append(payments,
       NewPayment(req[s].ident.id, req[s].courseId, req[s].method))
  /\ req' = [req EXCEPT ![s] = Respond(req[s], 200, "Payment successful")]
  /\ payLog' = Logged(req[s], 200)
  /\ UNCHANGED <<users, tokens, secret, now>>

\* ---- GET /my-courses
BeginMyCourses(s) ==
  /\ Free(s)
  /\ \E auth \in tokens \cup {NoToken, ForgedToken} :
       req' = [req EXCEPT ![s] = Authenticate(
                 [Idle EXCEPT !.op = "mycourses", !.auth = auth],
                 secret, now)]
  /\ UNCHANGED <<users, payments, tokens, secret, now, payLog>>

MyCoursesSelect(s) ==
  /\ req[s].op = "mycourses" /\ req[s].pc = "select"
  /\ req' = [req EXCEPT ![s] =
               [Respond(req[s], 200, "") EXCEPT !.body = MyCourses(req[s].ident.id)]]
  /\ UNCHANGED <<users, payments, tokens, secret, now, payLog>>

\* ---- GET /course/:id/videos
VideosChecked(r) ==
  IF ~Purchased(r.ident.id, r.courseId)
  THEN Respond(r, 403, "Access denied. You have not purchased this course.")
  ELSE [r EXCEPT !.pc = "fetch"]

BeginVideos(s) ==
  /\ Free(s)
  /\ \E auth \in tokens \cup {NoToken, ForgedToken}, courseId \in Courses :
       req' = [req EXCEPT ![s] = RequireUserId(Authenticate(
                 [Idle EXCEPT !.op = "videos", !.auth = auth,
                              !.courseId = courseId],
                 secret, now))]
  /\ UNCHANGED <<users, payments, tokens, secret, now, payLog>>

VideosSelect(s) ==
  /\ req[s].op = "videos" /\ req[s].pc = "select"
  /\ req' = [req EXCEPT ![s] = VideosChecked(req[s])]
  /\ UNCHANGED <<users, payments, tokens, secret, now, payLog>>

VideosFetch(s) ==
  /\ req[s].op = "videos" /\ req[s].pc = "fetch"
  /\ req' = [req EXCEPT ![s] =
               [Respond(req[s], 200, "") EXCEPT !.body = VideosOf(req[s].courseId)]]
  /\ UNCHANGED <<users, payments, tokens, secret, now, payLog>>

\* ---- GET /courses
BeginCourses(s) ==
  /\ Free(s)
  /\ req' = [req EXCEPT ![s] = [Idle EXCEPT !.op = "courses", !.pc = "select"]]
  /\ UNCHANGED <<users, payments, tokens, secret, now, payLog>>

CoursesSelect(s) ==
  /\ req[s].op = "courses" /\ req[s].pc = "select"
  /\ req' = [req EXCEPT ![s] = [Respond(req[s], 200, "") EXCEPT !.body = Courses]]
  /\ UNCHANGED <<users, payments, tokens, secret, now, payLog>>

\* ---- the response has been read; the slot serves the next request
Close(s) ==
  /\ req[s].pc = "done"
  /\ req' = [req EXCEPT ![s] = Idle]
  /\ UNCHANGED <<users, payments, tokens, secret, now, payLog>>

\* ---- the clock
Tick ==
  /\ now < MaxTime
  /\ now' = now + 1
  /\ UNCHANGED <<users, payments, tokens, secret, req, payLog>>

\* ------------------------------------------------------- specifications
AuthBegin(s) == BeginRegister(s) \/ BeginLogin(s) \/ BeginCourses(s)

AuthStep(s) ==
  \/ RegisterSelect(s)
  \/ RegisterHash(s)
  \/ RegisterInsert(s)
  \/ LoginSelect(s)
  \/ LoginCompare(s)
  \/ CoursesSelect(s)

GatedBegin(s) == BeginPayment(s) \/ BeginMyCourses(s) \/ BeginVideos(s)

GatedStep(s) ==
  \/ PaymentSelect(s)
  \/ PaymentInsert(s)
  \/ MyCoursesSelect(s)
  \/ VideosSelect(s)
  \/ VideosFetch(s)

\* The whole API, one request at a time: a request starts only when every
\* earlier one has been answered and read.
Quiet == \A t \in Slots : req[t].pc = "idle"

Next ==
  \/ \E s \in Slots : Quiet /\ (AuthBegin(s) \/ GatedBegin(s))
  \/ \E s \in Slots : AuthStep(s) \/ GatedStep(s) \/ Close(s)
  \/ Tick

Spec == Init /\ [][Next]_vars

\* The open routes, any number of requests running concurrently, on a fresh
\* store.
NextAuth == \E s \in Slots : AuthBegin(s) \/ AuthStep(s) \/ Close(s)

SpecAuth == Init /\ [][NextAuth]_vars

\* The protected routes, any number of requests running concurrently, from
\* the state Spec reaches when Ann and Bob have registered and each has
\* logged in at time 0.
InitGated ==
  /\ users = <<[id |-> 1, name |-> "Ann", email |-> "ann@x.com",
                password |-> Hash("pw123", "saltA")],
               [id |-> 2, name |-> "Ann", email |-> "bob@x.com",
                password |-> Hash("hunter2", "saltA")]>>
  /\ payments = <<>>
  /\ secret = "k1"
  /\ tokens = {SignToken(users[i], secret, 0) : i \in 1..2}
  /\ now = 0
  /\ req = [s \in Slots |-> Idle]
  /\ payLog = <<>>

NextGated == (\E s \in Slots : GatedBegin(s) \/ GatedStep(s) \/ Close(s)) \/ Tick

SpecGated == InitGated /\ [][NextGated]_vars

\* ----------------------------------------------------------------- claims
\* What the claims speak of, stated on the tables themselves.
Entitled(u, c) ==
  \E i \in 1..Len(payments) :
    payments[i].user_id = u /\ payments[i].course_id = c

RowCount(u, c) ==
  Cardinality({i \in 1..Len(payments) :
                 payments[i].user_id = u /\ payments[i].course_id = c})

EmailStored(e) == \E i \in 1..Len(users) : users[i].email = e

Answered(u, c, status) ==
  {k \in 1..Len(payLog) : payLog[k].user = u /\ payLog[k].course = c
                            /\ payLog[k].status = status}

Pairs == {<<payLog[k].user, payLog[k].course>> : k \in 1..Len(payLog)}
           \cup {<<payments[i].user_id, payments[i].course_id>> : i \in 1..Len(payments)}

Protected == {"payment", "mycourses", "videos"}

\* The handler behind the middleware ran for this request.
Admitted(r) == r.op \in Protected /\ r.pc # "idle" /\ r.error = ""

\* C1: GET /course/:id/videos releases the course's videos only when, at the
\* time of its check, payments holds a row for exactly (identity.id,
\* courseId); with a valid identity and no such row it answers 403 and
\* returns no video.  A purchase answered 200 leaves such a row, so the call
\* succeeds afterwards.
C1_VideosGated ==
  /\ [](\A s \in Slots :
          (req[s].op = "videos" /\ req[s].pc = "done" /\ Admitted(req[s])) =>
             /\ req[s].status \in {200, 403}
             /\ req[s].status = 200 =>
                  /\ Entitled(req[s].ident.id, req[s].courseId)
                  /\ req[s].body = VideosOf(req[s].courseId)
             /\ req[s].status = 403 => req[s].body = {})
  /\ [](\A k \in 1..Len(payLog) :
          payLog[k].status = 200 => Entitled(payLog[k].user, payLog[k].course))
  /\ [][\A s \in Slots :
          (req[s].op = "videos" /\ req[s].pc = "select" /\ req'[s] # req[s]) =>
             IF Entitled(req[s].ident.id, req[s].courseId)
             THEN req'[s].pc = "fetch"
             ELSE req'[s].pc = "done" /\ req'[s].status = 403
                  /\ req'[s].body = {}]_vars

\* C1 witness: Ann's videos request for a course was answered 200 while
\* another user's request for the same course was answered 403.
C1_Witness ==
  \E s, t \in Slots :
    /\ req[s].op = "videos" /\ req[s].pc = "done" /\ req[s].status = 200
    /\ req[t].op = "videos" /\ req[t].pc = "done" /\ req[t].status = 403
    /\ Admitted(req[t])
    /\ req[t].courseId = req[s].courseId
    /\ req[t].ident.id # req[s].ident.id

\* C2: with requests served one after the other, the first POST /payment of
\* a user for a course answers 200 and inserts one row, every later one
\* answers 409 and inserts nothing: one row per purchased pair.
C2_SecondPurchaseRejected ==
  /\ \A p \in Pairs :
       /\ Cardinality(Answered(p[1], p[2], 200)) = 1
       /\ RowCount(p[1], p[2]) = 1
       /\ \A k \in Answered(p[1], p[2], 409) :
            \E j \in Answered(p[1], p[2], 200) : j < k
  /\ \A k \in 1..Len(payLog) : payLog[k].status \in {200, 409}
  /\ Len(payments) = Cardinality({k \in 1..Len(payLog) : payLog[k].status = 200})

\* C2 witness: a pair was purchased (200) and then refused (409).
C2_Witness ==
  \E p \in Pairs : Answered(p[1], p[2], 200) # {} /\ Answered(p[1], p[2], 409) # {}

\* C3: under any interleaving of POST /payment requests, payments holds at
\* most one row per (user_id, course_id) and at most one request per pair is
\* answered 200.
C3_OneRowPerPair ==
  \A p \in Pairs :
    RowCount(p[1], p[2]) <= 1 /\ Cardinality(Answered(p[1], p[2], 200)) <= 1

\* C4: a POST /register whose email is stored in users when the handler
\* checks answers 400 "User already exists" and leaves users unchanged.
C4_DuplicateRejected ==
  [][\A s \in Slots :
       (req[s].op = "register" /\ req[s].pc = "select" /\ req'[s] # req[s]
          /\ EmailStored(req[s].email)) =>
         /\ req'[s].pc = "done"
         /\ req'[s].status = 400
         /\ req'[s].message = "User already exists"
         /\ users' = users]_vars

\* C4 witness: a registration was answered 400 "User already exists".
C4_Witness ==
  \E s \in Slots :
    /\ req[s].op = "register" /\ req[s].pc = "done"
    /\ req[s].message = "User already exists"
    /\ EmailStored(req[s].email)

\* C5: under any interleaving of POST /register requests, users holds at
\* most one row per email.
C5_EmailUnique ==
  \A i, j \in 1..Len(users) : users[i].email = users[j].email => i = j

\* The answer a Login of this moment gives to (email, password), for each
\* row the store may return first.
LoginNow(email, password) ==
  {LET found == LoginFound([Idle EXCEPT !.op = "login", !.email = email,
                                        !.password = password, !.pc = "select"],
                           user)
   IN IF found.pc = "done" THEN found ELSE LoginFinish(found, secret, now)
   : user \in FirstRow(email)}

\* C6: once a POST /register has answered 201, and the secret is set, a
\* Login with that email and password answers 200 with a token carrying the
\* id and email of the user that registration created.
C6_RegisterThenLogin ==
  \A s \in Slots :
    (req[s].op = "register" /\ req[s].pc = "done" /\ req[s].status = 201
       /\ secret # Missing) =>
      \A out \in LoginNow(req[s].email, req[s].password) :
        /\ out.status = 200
        /\ out.token.id = req[s].row.id
        /\ out.token.email = req[s].email

\* A password other than the one the row was registered with.
WrongPassword(password, user) ==
  user.password # Hash(password, user.password.salt)

\* C7: a Login naming an unregistered email and a Login naming a registered
\* email with a wrong password get the same status and message, 401
\* "Invalid email or password", whatever users holds and whether or not the
\* secret is set.
C7_NoEnumeration ==
  \A a, b \in [email : Emails, password : Passwords] :
    (~EmailStored(a.email) /\ EmailStored(b.email)) =>
      \A x \in LoginNow(a.email, a.password) :
        \A user \in FirstRow(b.email) :
          WrongPassword(b.password, user) =>
            LET y == LoginFinish(LoginFound(
                       [Idle EXCEPT !.op = "login", !.email = b.email,
                                    !.password = b.password, !.pc = "select"],
                       user), secret, now)
            IN /\ x.status = 401 /\ x.message = "Invalid email or password"
               /\ y.status = x.status /\ y.message = x.message
               /\ x.token = NoToken /\ y.token = NoToken

\* C7 witness: with a user registered, one Login for an unregistered email
\* and one for a registered email with a wrong password have been answered.
C7_Witness ==
  \E s, t \in Slots :
    /\ req[s].op = "login" /\ req[s].pc = "done" /\ req[s].status = 401
    /\ ~EmailStored(req[s].email)
    /\ req[t].op = "login" /\ req[t].pc = "done" /\ req[t].status = 401
    /\ req[t].row # NoRow /\ WrongPassword(req[t].password, req[t].row)

\* A login request that passed field validation and has been answered.
LoginAnswered(r) ==
  r.op = "login" /\ r.pc = "done" /\ r.email # Missing /\ r.password # Missing

\* C8 as stated: with the secret absent, every Login that passes field
\* validation answers 500 "Server misconfiguration", valid credentials or
\* not.
C8_AlwaysMisconfiguration ==
  secret = Missing =>
    \A s \in Slots :
      LoginAnswered(req[s]) =>
        req[s].status = 500 /\ req[s].message = "Server misconfiguration"

\* C8 amended: with the secret absent, a Login that passes field validation
\* answers 500 "Server misconfiguration" exactly when the email is
\* registered and the password matches the row found; otherwise it answers
\* 401 "Invalid email or password"; no token is ever issued.
C8_MisconfigurationAfterCredentials ==
  secret = Missing =>
    /\ tokens = {}
    /\ \A s \in Slots :
         LoginAnswered(req[s]) =>
           /\ req[s].token = NoToken
           /\ IF req[s].row # NoRow /\ ~WrongPassword(req[s].password, req[s].row)
              THEN req[s].status = 500 /\ req[s].message = "Server misconfiguration"
              ELSE req[s].status = 401 /\ req[s].message = "Invalid email or password"

\* C8 witness: with the secret absent, a Login with valid credentials was
\* answered 500.
C8_Witness ==
  /\ secret = Missing
  /\ \E s \in Slots : LoginAnswered(req[s]) /\ req[s].status = 500

\* C9: payments only grows, by one row at a time, and the only step that
\* adds a row for (U, C) is a POST /payment of identity U for course C being
\* answered 200; no request of any kind removes or alters a row.
C9_EntitlementMonotone ==
  [][/\ Len(payments') >= Len(payments)
     /\ SubSeq(payments', 1, Len(payments)) = payments
     /\ payments' # payments =>
          \E s \in Slots :
            /\ req[s].op = "payment" /\ Admitted(req[s])
            /\ req[s].auth \in tokens /\ req[s].ident.id = req[s].auth.id
            /\ req'[s].pc = "done" /\ req'[s].status = 200
            /\ payments' = Append(payments,
                 [user_id |-> req[s].ident.id, course_id |-> req[s].courseId,
                  payment_method |-> req[s].method])]_vars

\* C9 witness: two purchases are recorded and a later videos request of a
\* course was answered.
C9_Witness ==
  /\ Len(payments) = 2
  /\ payments[1].user_id # payments[2].user_id
  /\ \E s \in Slots : req[s].op = "videos" /\ req[s].pc = "done" /\ req[s].status = 200

\* C10: a protected request presenting a token that Login issued at time t
\* passes the middleware when made before t + 1 hour; made after t + 1 hour
\* it is rejected, the handler does not run and the store is unchanged.
C10_TokenLifetime ==
  /\ [](\A s \in Slots :
          (req[s].op \in Protected /\ req[s].error # "") =>
             req[s].pc = "done" /\ req[s].body = {})
  /\ [][\A s \in Slots :
          (req[s].pc = "idle" /\ req'[s].op \in Protected
             /\ req'[s].auth \in tokens) =>
            /\ now < req'[s].auth.iat + ExpiresIn =>
                 /\ req'[s].error = "" /\ req'[s].pc = "select"
                 /\ req'[s].ident = [id |-> req'[s].auth.id,
                                     email |-> req'[s].auth.email]
            /\ now > req'[s].auth.iat + ExpiresIn =>
                 /\ req'[s].error = "ExpiredTokenError" /\ req'[s].pc = "done"
                 /\ users' = users /\ payments' = payments]_vars

\* C10 witness: a purchase made with a token was recorded, and a later
\* protected request presenting an issued token past its hour was rejected.
C10_Witness ==
  /\ Len(payments) > 0
  /\ \E s \in Slots :
       /\ req[s].op \in Protected /\ req[s].pc = "done"
       /\ req[s].auth \in tokens
       /\ req[s].error = "ExpiredTokenError"
       /\ now > req[s].auth.iat + ExpiresIn

====
